---- MODULE Spec2Model ----
(***************************************************************************)
(* Model of phidata/aws/resource/elb/listener.py: the Listener resource,   *)
(* its _create / _read / _update / _delete operations and the two ARN      *)
(* helpers, running against the elbv2 service client and the LoadBalancer  *)
(* and TargetGroup references.                                             *)
(*                                                                         *)
(* Python values are tagged records so that values of different Python     *)
(* types can be compared: None, a str, an int, a bool, a list, a raised    *)
(* exception and a bound method are records with distinct domains; a       *)
(* Python dict is a TLA+ function from its keys to its values.             *)
(***************************************************************************)
EXTENDS Integers, Sequences, FiniteSets, TLC

\* ------------------------------------------------------------------ bounds
\* Number of listeners the remote API lets this run create.
MaxCreates == 1

\* ------------------------------------------------------------ Python values
None == [none |-> TRUE]
Str(s) == [str |-> s]
PyInt(n) == [int |-> n]
Bool(b) == [bool |-> b]
List(s) == [list |-> s]
Raise(kind) == [raise |-> kind]
\* The value of the expression `self.get_arn`: a bound method object.
BoundMethod(name) == [method |-> name]

IsRaise(v) == "raise" \in DOMAIN v
IsStr(v) == "str" \in DOMAIN v
\* isinstance(v, list)
IsList(v) == "list" \in DOMAIN v
\* {}
EmptyDict == [k \in {} |-> None]
\* d.get(key, None)
Get(d, key) == IF key \in DOMAIN d THEN d[key] ELSE None
\* {key: value} when value is not None, else nothing: one `if ... is not None`
\* assignment into not_null_args.
NotNullArg(key, value) == IF value # None THEN key :> value ELSE EmptyDict

\* --------------------------------------------------------------- the world
\* ARN of the load balancer, which load_balancer_arn names and the
\* load_balancer reference resolves to.
LoadBalancerArn == "lb-1"
TargetGroupArn == "tg-1"
\* ARN of the n-th listener the remote API creates.
ListenerArn(n) == "listener/" \o ToString(n)
\* A listener that is on the load balancer before the run, made by others.
ExistingListener == [ListenerArn |-> Str("listener/existing"), Port |-> PyInt(8080)]

VARIABLES
    \* fields of the Listener instance
    load_balancer, target_group, load_balancer_arn,
    protocol, port, ssl_policy, certificates, default_actions, alpn_policy, tags,
    active_resource,
    \* remote control plane: the listeners of the load balancer, in the order
    \* describe_listeners returns them
    listeners,
    \* number of listeners created so far
    created,
    \* the last operation run on the instance: its name, what it returned (or
    \* raised), the collaborator calls it made, and active_resource before it
    last

fields == <<load_balancer, target_group, load_balancer_arn, protocol, port,
            ssl_policy, certificates, default_actions, alpn_policy, tags>>
vars == <<fields, active_resource, listeners, created, last>>

\* A collaborator call: which one, its keyword arguments, what it returned or raised.
Call(api, args, result) == [api |-> api, args |-> args, result |-> result]
CallsTo(calls, api) == SelectSeq(calls, LAMBDA c: c.api = api)

\* ------------------------------------------------- outcomes of collaborators
\* LoadBalancer.get_arn(aws_client): Optional[str], or an exception; there
\* is no answer to choose when there is no reference to ask.
LoadBalancerOutcomes ==
    IF load_balancer = None THEN {None}
    ELSE {None, Str(LoadBalancerArn), Raise("Exception")}
\* TargetGroup.get_arn(aws_client): Optional[str], or an exception.
TargetGroupOutcomes ==
    IF target_group = None THEN {None}
    ELSE {None, Str(TargetGroupArn), Raise("Exception")}
\* describe_listeners: the response with its Listeners, a response without
\* the Listeners key, a botocore ClientError, or any other exception.
DescribeOutcomes == {"ok", "absent", "ClientError", "Exception"}
\* create_listener / delete_listener: served, or an exception.
CallOutcomes == {"ok", "Exception"}
\* ---------------------------------------------------- the elbv2 service client
\* The record the remote API keeps for a listener it creates.
NewListener(args) == [ListenerArn |-> Str(ListenerArn(created + 1)), Port |-> Get(args, "Port")]
\* seq with elem put at place pos, or at the end when pos is beyond it.
InsertAt(seq, pos, elem) ==
    IF pos > Len(seq) THEN Append(seq, elem)
    ELSE SubSeq(seq, 1, pos - 1) \o <<elem>> \o SubSeq(seq, pos, Len(seq))
HasArn(arn) == \E i \in 1..Len(listeners): listeners[i].ListenerArn = arn

\* service_client.create_listener(LoadBalancerArn=..., **not_null_args): the new
\* listener joins the load balancer's listeners at the place pos of the order
\* describe_listeners reports, and the response holds its record.
create_listener(args, out, pos) ==
    LET rec == NewListener(args)
    IN  IF out = "ok" /\ created < MaxCreates /\ args["LoadBalancerArn"] = Str(LoadBalancerArn)
        THEN [result |-> [Listeners |-> List(<<rec>>)],
              listeners |-> InsertAt(listeners, pos, rec),
              created |-> created + 1]
        ELSE [result |-> Raise("Exception"), listeners |-> listeners, created |-> created]

\* service_client.describe_listeners(LoadBalancerArn=...)
describe_listeners(args, out) ==
    CASE out = "ok" /\ args["LoadBalancerArn"] = Str(LoadBalancerArn) ->
              [Listeners |-> List(listeners)]
      [] out = "absent" -> EmptyDict
      [] out = "ok" -> Raise("ClientError")
      [] OTHER -> Raise(out)

\* service_client.delete_listener(ListenerArn=...)
delete_listener(args, out) ==
    LET arn == args["ListenerArn"]
    IN  IF out = "ok" /\ HasArn(arn)
        THEN [result |-> EmptyDict,
              listeners |-> SelectSeq(listeners, LAMBDA r: r.ListenerArn # arn)]
        ELSE [result |-> Raise("Exception"), listeners |-> listeners]

\* service_client.modify_listener(ListenerArn=..., **not_null_args): the client
\* validates the parameter types before it sends anything, and ListenerArn
\* must be a string.
modify_listener(args, out) ==
    LET arn == args["ListenerArn"]
    IN  IF ~IsStr(arn) THEN Raise("ParamValidationError")
        ELSE IF out = "ok" /\ HasArn(arn)
        THEN [Listeners |-> List(<<[ListenerArn |-> arn, Port |-> Get(args, "Port")]>>)]
        ELSE Raise("Exception")

\* ------------------------------------------------------------- the Listener
get_load_balancer_arn_reference_first(lbOut) ==
    IF load_balancer # None
    THEN [ret |-> lbOut, calls |-> <<Call("load_balancer.get_arn", EmptyDict, lbOut)>>]
    ELSE [ret |-> load_balancer_arn, calls |-> <<>>]
\* get_load_balancer_arn: what it returns (or raises) and the calls it made;
\* lbOut is what load_balancer.get_arn gives if it is called.
get_load_balancer_arn(lbOut) ==
    IF load_balancer_arn = None /\ load_balancer # None
    THEN [ret |-> lbOut, calls |-> <<Call("load_balancer.get_arn", EmptyDict, lbOut)>>]
    ELSE [ret |-> load_balancer_arn, calls |-> <<>>]

SelectActiveTakesLast(cache, resource_list) ==
    IF resource_list # None /\ IsList(resource_list)
    THEN IF Len(resource_list.list) > 0
         THEN resource_list.list[Len(resource_list.list)] ELSE None
    ELSE cache
SelectActiveKeepsOnEmpty(cache, resource_list) ==
    IF resource_list # None /\ IsList(resource_list) /\ Len(resource_list.list) > 0
    THEN resource_list.list[1]
    ELSE cache
\* _read, lines 119-122: the record a describe response selects.
SelectActive(cache, resource_list) ==
    IF resource_list # None /\ IsList(resource_list)
    THEN IF Len(resource_list.list) > 0 THEN resource_list.list[1] ELSE None
    ELSE cache

ReadFailedClears(cache) == None
\* _read, lines 123-128: both handlers log and fall through to the final
\* `return self.active_resource`.
ReadFailed(cache) == cache

\* _read with active_resource = cache on entry: what it returns, the calls it
\* made and active_resource on exit.
_read(cache, lbOut, descOut) ==
    LET lb == get_load_balancer_arn(lbOut)
        args == "LoadBalancerArn" :> lb.ret
        describe_response == describe_listeners(args, descOut)
        described == lb.calls \o <<Call("describe_listeners", args, describe_response)>>
        selected == SelectActive(cache, Get(describe_response, "Listeners"))
    IN  IF IsRaise(lb.ret)
        THEN [ret |-> ReadFailed(cache), calls |-> lb.calls, active_resource |-> ReadFailed(cache)]
        ELSE IF lb.ret = None
        THEN [ret |-> None, calls |-> lb.calls, active_resource |-> cache]
        ELSE IF IsRaise(describe_response)
        THEN [ret |-> ReadFailed(cache), calls |-> described, active_resource |-> ReadFailed(cache)]
        ELSE [ret |-> selected, calls |-> described, active_resource |-> selected]

\* get_arn with active_resource = cache on entry.
get_arn(cache, lbOut, descOut) ==
    LET read == _read(cache, lbOut, descOut)
        listener == read.ret
    IN  [ret |-> IF listener = None THEN None ELSE Get(listener, "ListenerArn"),
         calls |-> read.calls, active_resource |-> read.active_resource]
CreateArgsWithNulls ==
    [Protocol |-> protocol, Port |-> port, SslPolicy |-> ssl_policy,
     Certificates |-> certificates, AlpnPolicy |-> alpn_policy, Tags |-> tags]
\* _create, lines 45-58: the arguments which are not null.
CreateArgs ==
    NotNullArg("Protocol", protocol) @@ NotNullArg("Port", port)
        @@ NotNullArg("SslPolicy", ssl_policy) @@ NotNullArg("Certificates", certificates)
        @@ NotNullArg("AlpnPolicy", alpn_policy) @@ NotNullArg("Tags", tags)

\* _create, lines 67-69: the action synthesized from the target group's ARN.
ForwardAction(target_group_arn) ==
    List(<<[Type |-> Str("forward"), TargetGroupArn |-> target_group_arn]>>)

TargetGroupArnNotAvailableIsSuccess == Bool(TRUE)
\* _create, lines 64-66: the target group's ARN is not available.
TargetGroupArnNotAvailable == Bool(FALSE)

\* _create, lines 60-74: DefaultActions. ret is None when _create goes on to
\* the remote call with args, else what _create returns (or raises) here.
DefaultActions(tgOut) ==
    LET tgCall == <<Call("target_group.get_arn", EmptyDict, tgOut)>>
    IN  IF default_actions # None
        THEN [ret |-> None, calls |-> <<>>, args |-> "DefaultActions" :> default_actions]
        ELSE IF target_group # None
        THEN IF IsRaise(tgOut)
             THEN [ret |-> tgOut, calls |-> tgCall, args |-> EmptyDict]
             ELSE IF tgOut = None
             THEN [ret |-> TargetGroupArnNotAvailable, calls |-> tgCall, args |-> EmptyDict]
             ELSE [ret |-> None, calls |-> tgCall,
                   args |-> "DefaultActions" :> ForwardAction(tgOut)]
        ELSE [ret |-> Bool(TRUE), calls |-> <<>>, args |-> EmptyDict]

CreateResultCachesListener(cache, create_response) ==
    IF IsRaise(create_response)
    THEN [ret |-> Bool(FALSE), active_resource |-> None]
    ELSE [ret |-> Bool(TRUE), active_resource |-> create_response["Listeners"].list[1]]
\* _create, lines 78-94: what a create_listener result makes of the return
\* value and of active_resource (cache on entry).
CreateResult(cache, create_response) ==
    IF IsRaise(create_response)
    THEN [ret |-> Bool(FALSE), active_resource |-> cache]
    ELSE IF (IF "Listeners" \in DOMAIN create_response
             THEN create_response["Listeners"] ELSE EmptyDict) # None
    THEN [ret |-> Bool(TRUE), active_resource |-> create_response]
    ELSE [ret |-> Bool(FALSE), active_resource |-> cache]

LoadBalancerArnNotAvailableIsFailure == Bool(FALSE)
\* _create, lines 41-43: the load balancer's ARN is not available.
LoadBalancerArnNotAvailable == Bool(TRUE)

\* _create: its return value (or the exception that escapes it), the calls it
\* made, and active_resource, the remote listeners and their count on exit.
_create(lbOut, tgOut, createOut, pos) ==
    LET lb == get_load_balancer_arn(lbOut)
        da == DefaultActions(tgOut)
        args == ("LoadBalancerArn" :> lb.ret) @@ CreateArgs @@ da.args
        remote == create_listener(args, createOut, pos)
        result == CreateResult(active_resource, remote.result)
        unchanged == [active_resource |-> active_resource, listeners |-> listeners,
                      created |-> created]
    IN  IF IsRaise(lb.ret)
        THEN [ret |-> lb.ret, calls |-> lb.calls] @@ unchanged
        ELSE IF lb.ret = None
        THEN [ret |-> LoadBalancerArnNotAvailable, calls |-> lb.calls] @@ unchanged
        ELSE IF da.ret # None
        THEN [ret |-> da.ret, calls |-> lb.calls \o da.calls] @@ unchanged
        ELSE [ret |-> result.ret,
              calls |-> lb.calls \o da.calls \o <<Call("create_listener", args, remote.result)>>,
              active_resource |-> result.active_resource,
              listeners |-> remote.listeners, created |-> remote.created]

ClearedKeepsCache(cache) == cache
\* _delete, line 139: self.active_resource = None, before the ARN is resolved.
Cleared(cache) == None

\* _delete
_delete(lbOut, descOut, deleteOut) ==
    LET arn == get_arn(Cleared(active_resource), lbOut, descOut)
        listener_arn == arn.ret
        args == "ListenerArn" :> listener_arn
        remote == delete_listener(args, deleteOut)
    IN  IF listener_arn = None
        THEN [ret |-> Bool(TRUE), calls |-> arn.calls,
              active_resource |-> arn.active_resource, listeners |-> listeners]
        ELSE [ret |-> Bool(~IsRaise(remote.result)),
              calls |-> arn.calls \o <<Call("delete_listener", args, remote.result)>>,
              active_resource |-> arn.active_resource, listeners |-> remote.listeners]

\* _update, lines 168-181: the arguments which are not null.
UpdateArgs ==
    NotNullArg("Protocol", protocol) @@ NotNullArg("Port", port)
        @@ NotNullArg("SslPolicy", ssl_policy) @@ NotNullArg("Certificates", certificates)
        @@ NotNullArg("DefaultActions", default_actions)
        @@ NotNullArg("AlpnPolicy", alpn_policy)

\* _update: line 163 binds listener_arn to the method get_arn itself, without
\* calling it, so nothing is read and listener_arn is never None.
_update(modifyOut) ==
    LET listener_arn == BoundMethod("get_arn")
        args == ("ListenerArn" :> listener_arn) @@ UpdateArgs
        create_response == modify_listener(args, modifyOut)
        result == CreateResult(active_resource, create_response)
    IN  IF listener_arn = None
        THEN [ret |-> Bool(TRUE), calls |-> <<>>, active_resource |-> active_resource]
        ELSE [ret |-> result.ret,
              calls |-> <<Call("modify_listener", args, create_response)>>,
              active_resource |-> result.active_resource]

\* ------------------------------------------------------------------ actions
Optional(values) == {None} \cup values

\* The state after construction, with the optional request arguments from
\* `arguments` and the load balancer and routing fields from `routing`.
Constructed(arguments, routing, existing) ==
    /\ \E a \in arguments:
          /\ protocol = a[1] /\ port = a[2] /\ ssl_policy = a[3]
          /\ certificates = a[4] /\ alpn_policy = a[5] /\ tags = a[6]
    /\ \E r \in routing:
          /\ load_balancer = r[1] /\ load_balancer_arn = r[2]
          /\ target_group = r[3] /\ default_actions = r[4]
    /\ active_resource = None
    /\ listeners \in existing
    /\ created = 0
    /\ last = [op |-> "init", ret |-> None, calls |-> <<>>, pre |-> None]

AnyArguments ==
    Optional({Str("HTTPS")}) \X Optional({PyInt(443)})
        \X Optional({Str("ELBSecurityPolicy-2016-08")})
        \X Optional({List(<<[CertificateArn |-> Str("cert-1")]>>)})
        \X Optional({List(<<Str("HTTP2Preferred")>>)})
        \X Optional({List(<<[Key |-> Str("env"), Value |-> Str("prd")]>>)})
\* The arguments all unset, all set, or the port alone.
SomeArguments ==
    {a \in AnyArguments:
        \/ \A i \in 1..6: a[i] = None
        \/ \A i \in 1..6: a[i] # None
        \/ \A i \in 1..6: a[i] # None <=> i = 2}

AnyRouting ==
    Optional({[ref |-> "LoadBalancer"]}) \X Optional({Str(LoadBalancerArn)})
        \X Optional({[ref |-> "TargetGroup"]})
        \X Optional({List(<<[Type |-> Str("fixed-response")]>>)})
\* The load balancer named by load_balancer_arn alone.
ExplicitRouting == {r \in AnyRouting: r[1] = None /\ r[2] # None}

\* Every load balancer and routing configuration.
Init == Constructed(SomeArguments, AnyRouting, {<<>>, <<ExistingListener>>})
\* Every combination of the optional request arguments.
InitArguments == Constructed(AnyArguments, ExplicitRouting, {<<>>})

Ran(op, r) == [op |-> op, ret |-> r.ret, calls |-> r.calls, pre |-> active_resource]

Create ==
    \E lbOut \in LoadBalancerOutcomes, tgOut \in TargetGroupOutcomes,
       createOut \in CallOutcomes, pos \in 1..(Len(listeners) + 1):
        LET r == _create(lbOut, tgOut, createOut, pos)
        IN  /\ active_resource' = r.active_resource
            /\ listeners' = r.listeners
            /\ created' = r.created
            /\ last' = Ran("create", r)
            /\ UNCHANGED fields

Read ==
    \E lbOut \in LoadBalancerOutcomes, descOut \in DescribeOutcomes:
        LET r == _read(active_resource, lbOut, descOut)
        IN  /\ active_resource' = r.active_resource
            /\ last' = Ran("read", r)
            /\ UNCHANGED <<fields, listeners, created>>

Update ==
    \E modifyOut \in CallOutcomes:
        LET r == _update(modifyOut)
        IN  /\ active_resource' = r.active_resource
            /\ last' = Ran("update", r)
            /\ UNCHANGED <<fields, listeners, created>>

Delete ==
    \E lbOut \in LoadBalancerOutcomes, descOut \in DescribeOutcomes,
       deleteOut \in CallOutcomes:
        LET r == _delete(lbOut, descOut, deleteOut)
        IN  /\ active_resource' = r.active_resource
            /\ listeners' = r.listeners
            /\ last' = Ran("delete", r)
            /\ UNCHANGED <<fields, created>>

GetArn ==
    \E lbOut \in LoadBalancerOutcomes, descOut \in DescribeOutcomes:
        LET r == get_arn(active_resource, lbOut, descOut)
        IN  /\ active_resource' = r.active_resource
            /\ last' = Ran("get_arn", r)
            /\ UNCHANGED <<fields, listeners, created>>

GetLoadBalancerArn ==
    \E lbOut \in LoadBalancerOutcomes:
        LET r == get_load_balancer_arn(lbOut)
        IN  /\ last' = Ran("get_load_balancer_arn", r)
            /\ UNCHANGED <<fields, active_resource, listeners, created>>

Next ==
    \/ Create
    \/ Read
    \/ Update
    \/ Delete
    \/ GetArn
    \/ GetLoadBalancerArn

Spec == Init /\ [][Next]_vars
SpecArguments == InitArguments /\ [][Next]_vars
\* ------------------------------------------------------------------- claims
\* What an operation did, ran being its record; Did is about the last one.
DidIn(ran, api) == CallsTo(ran.calls, api)
Did(api) == DidIn(last, api)
Failed(api) == \E i \in 1..Len(Did(api)): IsRaise(Did(api)[i].result)
Served(api) == \E i \in 1..Len(Did(api)): ~IsRaise(Did(api)[i].result)
\* The load balancer's ARN was available to the last operation.
LoadBalancerArnResolved ==
    \/ load_balancer_arn # None
    \/ \E i \in 1..Len(Did("load_balancer.get_arn")): IsStr(Did("load_balancer.get_arn")[i].result)
\* The target group answered the last operation that it has no ARN.
TargetGroupArnMissing ==
    \E i \in 1..Len(Did("target_group.get_arn")): Did("target_group.get_arn")[i].result = None
\* No listener ARN can come out of a read in this state: there is no load
\* balancer to ask, or it has no listener and nothing was cached.
NoListenerArnObtainable ==
    \/ load_balancer_arn = None /\ load_balancer = None
    \/ load_balancer_arn # None /\ listeners = <<>> /\ last.pre = None

\* C1: whenever no listener ARN is obtainable via read, update returns true
\* and issues no modify call.
C1_UpdateWithoutArnIsNoOp ==
    (last.op = "update" /\ NoListenerArnObtainable)
        => (last.ret = Bool(TRUE) /\ Did("modify_listener") = <<>>)

\* C2 (as claimed): create with default_actions unset, a resolved load
\* balancer ARN and no resolvable target group ARN (target_group unset, or its
\* get_arn returning None) returns true and issues no create call.
C2_CreateWithoutActionsIsNoOp ==
    (/\ last.op = "create" /\ default_actions = None /\ LoadBalancerArnResolved
     /\ (target_group = None \/ TargetGroupArnMissing))
        => (last.ret = Bool(TRUE) /\ Did("create_listener") = <<>>)

\* C2 (amended): such a create issues no create call; it returns true when
\* target_group is unset and false when target_group is set and its get_arn
\* returns None.
C2_CreateWithoutActions ==
    (last.op = "create" /\ default_actions = None /\ LoadBalancerArnResolved)
        => /\ target_group = None
                => (last.ret = Bool(TRUE) /\ Did("create_listener") = <<>>)
           /\ TargetGroupArnMissing
                => (last.ret = Bool(FALSE) /\ Did("create_listener") = <<>>)

C2_Witness ==
    /\ last.op = "create" /\ default_actions = None /\ LoadBalancerArnResolved
    /\ TargetGroupArnMissing /\ last.ret = Bool(FALSE)

\* C3 (as claimed): when describe_listeners fails, read returns nothing,
\* whatever was cached.
C3_ReadFailureReturnsNothing ==
    (last.op = "read" /\ Failed("describe_listeners")) => last.ret = None

\* C3 (amended): when describe_listeners fails, read returns the record that
\* was cached before the call and leaves the cache as it was.
C3_ReadFailureReturnsCache ==
    (last.op = "read" /\ Failed("describe_listeners"))
        => (last.ret = last.pre /\ active_resource = last.pre)

C3_Witness ==
    last.op = "read" /\ Failed("describe_listeners") /\ last.pre # None /\ last.ret = last.pre

\* The Listeners of the describe response the last operation got, None when
\* the response has none.
Described == Get(Did("describe_listeners")[1].result, "Listeners")
IsElement(record, list) == \E i \in 1..Len(list.list): list.list[i] = record

\* C4 (as claimed): when describe_listeners succeeds with Listeners empty or
\* absent, read returns the cached record and leaves the cache unchanged; when
\* Listeners is non-empty read caches and returns a record of it.
C4_ReadFallsBackOnEmpty ==
    (last.op = "read" /\ Served("describe_listeners"))
        => IF Described = None \/ Described = List(<<>>)
           THEN last.ret = last.pre /\ active_resource = last.pre
           ELSE last.ret = active_resource /\ IsElement(last.ret, Described)

\* C4 (amended): with Listeners absent read returns the cached record and
\* leaves the cache unchanged; with Listeners empty it clears the cache and
\* returns nothing; with Listeners non-empty it caches and returns a record
\* of it.
C4_ReadFallsBackOnAbsent ==
    (last.op = "read" /\ Served("describe_listeners"))
        => CASE Described = None -> last.ret = last.pre /\ active_resource = last.pre
             [] Described = List(<<>>) -> last.ret = None /\ active_resource = None
             [] OTHER -> last.ret = active_resource /\ IsElement(last.ret, Described)

C4_Witness ==
    /\ last.op = "read" /\ Served("describe_listeners")
    /\ Described = List(<<>>) /\ last.pre # None /\ active_resource = None
\* The ARN of the listener that the create recorded in ran created.
CreatedArn(ran) == DidIn(ran, "create_listener")[1].result["Listeners"].list[1].ListenerArn

\* C5: after create returns true having created listener L, a delete invoked
\* next whose describe and delete calls succeed issues exactly one delete
\* call, for the ARN of L.
C5_DeleteAfterCreateDeletesCreated ==
    [][(/\ last.op = "create" /\ last.ret = Bool(TRUE)
        /\ Len(DidIn(last, "create_listener")) = 1
        /\ ~IsRaise(DidIn(last, "create_listener")[1].result)
        /\ last'.op = "delete"
        /\ Len(DidIn(last', "describe_listeners")) = 1
        /\ "Listeners" \in DOMAIN DidIn(last', "describe_listeners")[1].result
        /\ \A i \in 1..Len(last'.calls): ~IsRaise(last'.calls[i].result))
       => /\ Len(DidIn(last', "delete_listener")) = 1
          /\ DidIn(last', "delete_listener")[1].args["ListenerArn"] = CreatedArn(last)]_vars

\* C6: after a delete that issued a delete call and returned true, a second
\* delete, none of whose calls fails, issues no delete call and returns true,
\* and the remote listeners are the same after it as before it.
C6_DeleteIsIdempotent ==
    [][(/\ last.op = "delete" /\ last.ret = Bool(TRUE)
        /\ Len(DidIn(last, "delete_listener")) = 1
        /\ ~IsRaise(DidIn(last, "delete_listener")[1].result)
        /\ last'.op = "delete"
        /\ \A i \in 1..Len(last'.calls): ~IsRaise(last'.calls[i].result))
       => /\ DidIn(last', "delete_listener") = <<>>
          /\ last'.ret = Bool(TRUE)
          /\ listeners' = listeners]_vars

\* C7: create, update and delete return a boolean and read returns a record
\* or nothing, whatever the remote calls and the references do; no exception
\* escapes.
C7_NoExceptionEscapes ==
    /\ last.op \in {"create", "update", "delete"} => "bool" \in DOMAIN last.ret
    /\ last.op = "read" => ~IsRaise(last.ret)

\* C8: when create_listener fails, create returns false and active_resource
\* is what it was before; when it succeeds, create returns true and
\* active_resource is its response.
C8_CreateCachesResponse ==
    (last.op = "create" /\ Did("create_listener") # <<>>)
        => LET response == Did("create_listener")[1].result
           IN  IF IsRaise(response)
               THEN last.ret = Bool(FALSE) /\ active_resource = last.pre
               ELSE last.ret = Bool(TRUE) /\ active_resource = response

C8_Witness ==
    /\ last.op = "create" /\ Served("create_listener")
    /\ last.pre # None /\ active_resource # last.pre /\ last.ret = Bool(TRUE)

\* The optional request arguments of create_listener and the fields they
\* come from.
OptionalCreateArgs ==
    [Protocol |-> protocol, Port |-> port, SslPolicy |-> ssl_policy,
     Certificates |-> certificates, AlpnPolicy |-> alpn_policy, Tags |-> tags]

\* C9: every create request carries exactly the set fields among protocol,
\* port, ssl_policy, certificates, alpn_policy and tags, none with a null
\* value, and DefaultActions: default_actions when it is set, else the single
\* forward action to the ARN the target group resolved to.
C9_CreatePayload ==
    \A i \in 1..Len(Did("create_listener")):
        LET args == Did("create_listener")[i].args
        IN  /\ \A key \in DOMAIN OptionalCreateArgs:
                IF OptionalCreateArgs[key] = None
                THEN key \notin DOMAIN args
                ELSE key \in DOMAIN args /\ args[key] = OptionalCreateArgs[key]
            /\ \A key \in DOMAIN args: args[key] # None
            /\ DOMAIN args \subseteq
                  DOMAIN OptionalCreateArgs \cup {"LoadBalancerArn", "DefaultActions"}
            /\ "DefaultActions" \in DOMAIN args
            /\ IF default_actions # None
               THEN args["DefaultActions"] = default_actions
               ELSE /\ Len(Did("target_group.get_arn")) = 1
                    /\ args["DefaultActions"] =
                          List(<<[Type |-> Str("forward"),
                                  TargetGroupArn |-> Did("target_group.get_arn")[1].result]>>)

C9_Witness ==
    /\ last.op = "create" /\ Served("create_listener")
    /\ protocol # None /\ port = None /\ tags = None /\ default_actions = None
    /\ Did("create_listener")[1].args["DefaultActions"] =
          List(<<[Type |-> Str("forward"), TargetGroupArn |-> Str(TargetGroupArn)]>>)

\* C10: get_load_balancer_arn returns load_balancer_arn when it is set and
\* does not consult load_balancer; with load_balancer_arn unset and
\* load_balancer set it returns what load_balancer's get_arn returns; with
\* both unset it returns nothing.
C10_LoadBalancerArnPrecedence ==
    last.op = "get_load_balancer_arn"
        => CASE load_balancer_arn # None ->
                    last.ret = load_balancer_arn /\ Did("load_balancer.get_arn") = <<>>
             [] load_balancer # None ->
                    /\ Len(Did("load_balancer.get_arn")) = 1
                    /\ last.ret = Did("load_balancer.get_arn")[1].result
             [] OTHER -> last.ret = None /\ last.calls = <<>>

C10_Witness ==
    /\ last.op = "get_load_balancer_arn"
    /\ load_balancer_arn # None /\ load_balancer # None
    /\ last.ret = load_balancer_arn
\* C11: when describe_listeners succeeds with a non-empty Listeners, read
\* returns and caches its first element, whatever the port of the instance
\* and the ports of the listeners are.
C11_ReadTakesFirst ==
    (last.op = "read" /\ Served("describe_listeners")
        /\ Described # None /\ Described # List(<<>>))
        => (last.ret = Described.list[1] /\ active_resource = Described.list[1])

C11_Witness ==
    /\ last.op = "read" /\ Served("describe_listeners")
    /\ Described # None /\ Len(Described.list) = 2
    /\ Described.list[1].Port # port /\ Described.list[2].Port = port
    /\ last.ret = Described.list[1]
\* C12: whenever delete cannot resolve the listener ARN (no load balancer ARN,
\* describe_listeners failing, or describing no listener), it returns true,
\* issues no delete call and leaves active_resource empty, whatever was
\* cached before.
C12_DeleteWithoutArnIsNoOp ==
    (/\ last.op = "delete"
     /\ \/ Did("describe_listeners") = <<>>
        \/ Failed("describe_listeners")
        \/ Described = None
        \/ Described = List(<<>>))
        => /\ last.ret = Bool(TRUE)
           /\ Did("delete_listener") = <<>>
           /\ active_resource = None

C12_Witness ==
    /\ last.op = "delete" /\ Failed("describe_listeners")
    /\ "ListenerArn" \in DOMAIN last.pre
    /\ last.ret = Bool(TRUE) /\ active_resource = None

\* C13: create without a load balancer ARN (load_balancer_arn unset, and
\* load_balancer unset or resolving to nothing) returns true, issues no create
\* call, does not consult the target group and leaves active_resource as it
\* was.
C13_CreateWithoutLoadBalancerIsNoOp ==
    (/\ last.op = "create" /\ load_balancer_arn = None
     /\ \/ load_balancer = None
        \/ \E i \in 1..Len(Did("load_balancer.get_arn")):
              Did("load_balancer.get_arn")[i].result = None)
        => /\ last.ret = Bool(TRUE)
           /\ Did("create_listener") = <<>>
           /\ Did("target_group.get_arn") = <<>>
           /\ active_resource = last.pre

C13_Witness ==
    /\ last.op = "create" /\ load_balancer_arn = None /\ load_balancer # None
    /\ Did("load_balancer.get_arn")[1].result = None
    /\ target_group # None /\ default_actions = None /\ last.pre # None
    /\ last.ret = Bool(TRUE)
\* C14: every modify call of an update comes after a describe_listeners call
\* of the same update, and its ListenerArn is the ARN string of the record
\* that read returned.
C14_UpdateTargetsObservedListener ==
    last.op = "update"
        => \A i \in 1..Len(last.calls):
              last.calls[i].api = "modify_listener"
                  => /\ \E j \in 1..(i - 1): last.calls[j].api = "describe_listeners"
                     /\ IsStr(last.calls[i].args["ListenerArn"])
                     /\ Did("describe_listeners") # <<>>
                     /\ IsList(Described)
                     /\ Described # List(<<>>)
                     /\ last.calls[i].args["ListenerArn"] = Described.list[1].ListenerArn

\* C15: after a delete that issued a delete call and returned true,
\* active_resource is empty: it does not hold the record of the listener
\* that was deleted.
C15_DeleteLeavesAbsent ==
    (last.op = "delete" /\ Served("delete_listener") /\ last.ret = Bool(TRUE))
        => active_resource = None

\* C16: active_resource is empty or a single listener record with ListenerArn
\* at its top level, never a response envelope with Listeners.
C16_CacheIsListenerRecord ==
    \/ active_resource = None
    \/ /\ "ListenerArn" \in DOMAIN active_resource
       /\ "Listeners" \notin DOMAIN active_resource
====
